---------------------------- MODULE Spec2Model ----------------------------
(***************************************************************************)
(* Owner/Pet API (main.py, models/pet.py, models/owner.py).                *)
(*                                                                         *)
(* Two process-global dicts, `pets` and `owners`, and one FastAPI handler  *)
(* per route.  A Python dict keeps insertion order, so a store is a        *)
(* sequence of <<key, value>> entries with pairwise distinct keys.         *)
(*                                                                         *)
(* Encodings.                                                              *)
(*   Optional[T]      <<>> is None, <<v>> is the value v.                  *)
(*   JSON body        a record holding exactly the keys the client sent,   *)
(*                    so "the field is absent" is  f \notin DOMAIN body.   *)
(*   datetime.utcnow  the counter `now`; every reading advances it, so two *)
(*                    constructions never share a timestamp.               *)
(*   uuid4()          the counter `issued`; the n-th call returns n, a     *)
(*                    value no earlier call returned.                      *)
(*   HTTP status      201/200 success, 400 HTTPException(400),             *)
(*                    404 HTTPException(404), 422 request validation,      *)
(*                    500 uncaught exception, 405 no route for the method. *)
(***************************************************************************)
EXTENDS Integers, Sequences, FiniteSets, TLC

VARIABLES
    pets,     \* main.py:24  pets: Dict[UUID, PetRead]
    owners,   \* main.py:23  owners: Dict[UUID, OwnerRead]
    now,      \* the UTC clock read by datetime.utcnow
    issued,   \* number of uuid4() values handed out so far
    last,     \* the last request served one at a time: [op, key, status]
    threads   \* requests in flight when handlers run in parallel threads

vars == <<pets, owners, now, issued, last, threads>>

(***************************************************************************)
(* Bounds of the model.                                                    *)
(***************************************************************************)
MaxClock == 2

None == <<>>
Some(v) == <<v>>

PetIds == {1, 2}
OwnerIds == 1..MaxClock
PetNames == {"Fido"}
PetSpecies == {"", "Dog"}
PetAges == {None, Some(3)}
FirstNames == {"", "Ann"}
LastNames == {"Lee"}
Emails == {"ann@example.com"}
Phones == {None, Some("555")}
Rex == [id |-> 1, name |-> "Rex", species |-> "Cat", age |-> None]

(***************************************************************************)
(* dict operations                                                         *)
(***************************************************************************)
Keys(d) == {d[i].key : i \in DOMAIN d}

Lookup(d, k) == d[CHOOSE i \in DOMAIN d : d[i].key = k].val

Values(d) == [i \in DOMAIN d |-> d[i].val]

Put(d, k, v) ==
    IF k \in Keys(d)
    THEN [i \in DOMAIN d |-> IF d[i].key = k THEN [key |-> k, val |-> v] ELSE d[i]]
    ELSE Append(d, [key |-> k, val |-> v])

Del(d, k) == SelectSeq(d, LAMBDA e : e.key # k)

(***************************************************************************)
(* Python keyword-argument calls and pydantic model construction           *)
(***************************************************************************)
Drop(r, f) == [g \in DOMAIN r \ {f} |-> r[g]]

\* f(a=..., **kw) raises TypeError when kw repeats an explicit keyword.
KwClash(explicit, kw) == DOMAIN explicit \cap DOMAIN kw # {}

KwMerge(explicit, kw) ==
    [f \in DOMAIN explicit \cup DOMAIN kw |->
        IF f \in DOMAIN explicit THEN explicit[f] ELSE kw[f]]

\* Fields not passed take their default (Field(None), default_factory).
WithDefaults(kw, defaults) ==
    [f \in DOMAIN kw \cup DOMAIN defaults |->
        IF f \in DOMAIN kw THEN kw[f] ELSE defaults[f]]

(***************************************************************************)
(* models/pet.py                                                           *)
(***************************************************************************)
PetBaseFields == {"id", "name", "species", "age"}

\* Faulty variant: name and species treated as optional.
PetCreateValid_lax(body) ==
    /\ DOMAIN body \subseteq PetBaseFields
    /\ "id" \in DOMAIN body

\* PetBase / PetCreate: name and species are Field(...), age is Field(None).
\* The bodies of this model always carry an id (the default_factory of id
\* is not exercised).
PetCreateValid(body) ==
    /\ DOMAIN body \subseteq PetBaseFields
    /\ {"id", "name", "species"} \subseteq DOMAIN body

PetCreate(body) == WithDefaults(body, [age |-> None])

\* PetRead(**kw): created_at and updated_at default to datetime.utcnow().
PetRead(kw, t) == WithDefaults(kw, [created_at |-> t, updated_at |-> t])

(***************************************************************************)
(* models/owner.py                                                         *)
(***************************************************************************)
OwnerBaseFields == {"first_name", "last_name", "email", "phone", "pets"}

OwnerCreateValid(body) ==
    /\ DOMAIN body \subseteq OwnerBaseFields
    /\ {"first_name", "last_name", "email"} \subseteq DOMAIN body

OwnerCreate(body) == WithDefaults(body, [phone |-> None, pets |-> <<>>])

\* OwnerRead(**kw): id defaults to uuid4(), the timestamps to utcnow().
OwnerRead(kw, t, u) ==
    WithDefaults(kw, [id |-> u, created_at |-> t, updated_at |-> t])

(***************************************************************************)
(* Request bodies the clients send                                         *)
(***************************************************************************)
FullPetBodies ==
    [id : PetIds, name : PetNames, species : PetSpecies, age : PetAges]

PetBodies ==
    FullPetBodies
        \cup {Drop(b, "age") : b \in FullPetBodies}
        \cup {Drop(b, "name") : b \in {c \in FullPetBodies : c.age = None}}
        \cup {Drop(b, "species") : b \in {c \in FullPetBodies : c.age = None}}

\* An owner either has no phone and no pets, or a phone and the pet Rex.
FullOwnerBodies ==
    {[first_name |-> f, last_name |-> l, email |-> e, phone |-> c.phone, pets |-> c.pets] :
        f \in FirstNames, l \in LastNames, e \in Emails,
        c \in {[phone |-> None, pets |-> <<>>], [phone |-> Some("555"), pets |-> <<Rex>>]}}

OwnerBodies ==
    FullOwnerBodies
        \cup {Drop(Drop(b, "phone"), "pets") : b \in FullOwnerBodies}
        \cup {Drop(b, "first_name") : b \in FullOwnerBodies}
        \cup {Drop(b, "last_name") : b \in FullOwnerBodies}

(***************************************************************************)
(* Handler results: the response and the state the handler leaves.         *)
(***************************************************************************)
Resp(status, body, store, t) ==
    [status |-> status, body |-> body, store |-> store, now |-> t]

(***************************************************************************)
(* Routes registered on `app` (the decorators of main.py).  A request whose *)
(* path is registered, but not for its method, is answered 405 by the       *)
(* router; a path that is not registered at all, 404.                      *)
(***************************************************************************)
Routes ==
    { <<"GET", "/health">>, <<"GET", "/health/{path_echo}">>,
      <<"POST", "/pets">>, <<"GET", "/pets">>, <<"GET", "/pets/{pet_id}">>,
      <<"PUT", "/pets/{pet_id}">>, <<"DELETE", "/pets/{pet_id}">>,
      <<"POST", "/owners">>, <<"GET", "/owners">>, <<"GET", "/owners/{owner_id}">>,
      <<"PUT", "/owners/{owner_id}">>, <<"DELETE", "/owners/{owner_id}">>,
      <<"GET", "/">> }

NoRouteStatus(method, path) ==
    IF \E r \in Routes : r[2] = path /\ r[1] # method THEN 405 ELSE 404

(***************************************************************************)
(* Pet endpoints                                                           *)
(***************************************************************************)
\* Faulty variant: the membership test is missing.
create_pet_overwrite(store, pet, t) ==
    LET rec == PetRead(pet, t)
        stored == Put(store, pet.id, rec)
    IN Resp(201, Lookup(stored, pet.id), stored, t + 1)

create_pet(store, pet, t) ==
    IF pet.id \in Keys(store)
    THEN Resp(400, "Address with this ID already exists", store, t)
    ELSE LET rec == PetRead(pet, t)
             stored == Put(store, pet.id, rec)
         IN Resp(201, Lookup(stored, pet.id), stored, t + 1)

PostPets(store, body, t) ==
    IF ~PetCreateValid(body)
    THEN Resp(422, "validation error", store, t)
    ELSE create_pet(store, PetCreate(body), t)

get_pet(store, pet_id, t) ==
    IF pet_id \notin Keys(store)
    THEN Resp(404, "Pet not found", store, t)
    ELSE Resp(200, Lookup(store, pet_id), store, t)

\* Faulty variant: a record matching any one supplied filter is returned.
list_pets_any(store, name, species, age, t) ==
    LET r0 == Values(store)
        hit(p) == \/ name # None /\ p.name = name[1]
                  \/ species # None /\ p.species = species[1]
                  \/ age # None /\ p.age = age
    IN Resp(200,
            IF name = None /\ species = None /\ age = None
            THEN r0 ELSE SelectSeq(r0, hit), store, t)

list_pets(store, name, species, age, t) ==
    LET r0 == Values(store)
        r1 == IF name # None THEN SelectSeq(r0, LAMBDA p : p.name = name[1]) ELSE r0
        r2 == IF species # None THEN SelectSeq(r1, LAMBDA p : p.species = species[1]) ELSE r1
        r3 == IF age # None THEN SelectSeq(r2, LAMBDA p : p.age = age) ELSE r2
    IN Resp(200, r3, store, t)

update_pet(store, pet_id, pet_data, t) ==
    IF pet_id \notin Keys(store)
    THEN Resp(404, "Pet not found", store, t)
    ELSE IF KwClash([id |-> pet_id], pet_data)
         THEN Resp(500, "TypeError", store, t)
         ELSE LET rec == PetRead(KwMerge([id |-> pet_id], pet_data), t)
              IN Resp(200, rec, Put(store, pet_id, rec), t + 1)

PutPet(store, pet_id, body, t) ==
    IF ~PetCreateValid(body)
    THEN Resp(422, "validation error", store, t)
    ELSE update_pet(store, pet_id, PetCreate(body), t)

\* No function of main.py is registered for PATCH /pets/{pet_id}.
PatchPet(store, pet_id, body, t) ==
    Resp(NoRouteStatus("PATCH", "/pets/{pet_id}"), "no handler", store, t)

\* Faulty variant: the record is not removed.
delete_pet_keep(store, pet_id, t) ==
    IF pet_id \notin Keys(store)
    THEN Resp(404, "Pet not found", store, t)
    ELSE Resp(200, None, store, t)

delete_pet(store, pet_id, t) ==
    IF pet_id \notin Keys(store)
    THEN Resp(404, "Pet not found", store, t)
    ELSE Resp(200, None, Del(store, pet_id), t)

(***************************************************************************)
(* Owner endpoints                                                         *)
(***************************************************************************)
\* Faulty variant: the phone of the body is not stored.
create_owner_no_phone(store, owner, t, u) ==
    LET owner_read == OwnerRead([owner EXCEPT !.phone = None], t, u)
    IN Resp(201, owner_read, Put(store, owner_read.id, owner_read), t + 1)

create_owner(store, owner, t, u) ==
    LET owner_read == OwnerRead(owner, t, u)
    IN Resp(201, owner_read, Put(store, owner_read.id, owner_read), t + 1)

PostOwners(store, body, t, u) ==
    IF ~OwnerCreateValid(body)
    THEN Resp(422, "validation error", store, t)
    ELSE create_owner(store, OwnerCreate(body), t, u)

get_owner(store, owner_id, t) ==
    IF owner_id \notin Keys(store)
    THEN Resp(404, "Owner not found", store, t)
    ELSE Resp(200, Lookup(store, owner_id), store, t)

list_owners(store, first_name, last_name, email, phone, t) ==
    LET r0 == Values(store)
        r1 == IF first_name # None
              THEN SelectSeq(r0, LAMBDA o : o.first_name = first_name[1]) ELSE r0
        r2 == IF last_name # None
              THEN SelectSeq(r1, LAMBDA o : o.last_name = last_name[1]) ELSE r1
        r3 == IF email # None THEN SelectSeq(r2, LAMBDA o : o.email = email[1]) ELSE r2
        r4 == IF phone # None THEN SelectSeq(r3, LAMBDA o : o.phone = phone) ELSE r3
    IN Resp(200, r4, store, t)

\* Faulty variant: id=owner_id is not passed, so the record gets a new uuid4.
update_owner_new_id(store, owner_id, owner_data, t) ==
    IF owner_id \notin Keys(store)
    THEN Resp(404, "Owner not found", store, t)
    ELSE LET explicit == [created_at |-> Lookup(store, owner_id).created_at]
             rec == OwnerRead(KwMerge(explicit, owner_data), t, issued + 1)
         IN Resp(200, rec, Put(store, owner_id, rec), t + 1)

\* Faulty variant: created_at is not carried over.
update_owner_restamp(store, owner_id, owner_data, t) ==
    IF owner_id \notin Keys(store)
    THEN Resp(404, "Owner not found", store, t)
    ELSE LET rec == OwnerRead(KwMerge([id |-> owner_id], owner_data), t, owner_id)
         IN Resp(200, rec, Put(store, owner_id, rec), t + 1)

update_owner(store, owner_id, owner_data, t) ==
    IF owner_id \notin Keys(store)
    THEN Resp(404, "Owner not found", store, t)
    ELSE LET explicit == [id |-> owner_id,
                          created_at |-> Lookup(store, owner_id).created_at]
         IN IF KwClash(explicit, owner_data)
            THEN Resp(500, "TypeError", store, t)
            ELSE LET rec == OwnerRead(KwMerge(explicit, owner_data), t, owner_id)
                 IN Resp(200, rec, Put(store, owner_id, rec), t + 1)

PutOwner(store, owner_id, body, t) ==
    IF ~OwnerCreateValid(body)
    THEN Resp(422, "validation error", store, t)
    ELSE update_owner(store, owner_id, OwnerCreate(body), t)

delete_owner(store, owner_id, t) ==
    IF owner_id \notin Keys(store)
    THEN Resp(404, "Owner not found", store, t)
    ELSE Resp(200, None, Del(store, owner_id), t)

(***************************************************************************)
(* Requests served one at a time: each handler runs to completion.         *)
(***************************************************************************)
Init ==
    /\ pets = <<>>
    /\ owners = <<>>
    /\ now = 0
    /\ issued = 0
    /\ last = [op |-> "none", key |-> None, status |-> 0]
    /\ threads = <<>>

Served(op, key, r) ==
    /\ r.now <= MaxClock
    /\ now' = r.now
    /\ last' = [op |-> op, key |-> key, status |-> r.status]

OnPets(op, key, r) ==
    /\ Served(op, key, r)
    /\ pets' = r.store
    /\ UNCHANGED <<owners, issued, threads>>

OnOwners(op, key, r) ==
    /\ Served(op, key, r)
    /\ owners' = r.store
    /\ UNCHANGED <<pets, threads>>

NameFilters == {None, Some("Fido"), Some("Rex")}
SpeciesFilters == {None} \cup {Some(s) : s \in PetSpecies}
AgeFilters == PetAges
PetPatches == {[age |-> Some(4)], [name |-> "Max"], [name |-> "Max", species |-> "Dog"]}

CreatePet ==
    \E body \in PetBodies :
        OnPets("create_pet", Some(body.id), PostPets(pets, body, now))

GetPet ==
    \E pet_id \in PetIds :
        OnPets("get_pet", Some(pet_id), get_pet(pets, pet_id, now))

ListPets ==
    \E name \in NameFilters, species \in SpeciesFilters, age \in AgeFilters :
        OnPets("list_pets", None, list_pets(pets, name, species, age, now))

UpdatePet ==
    \E pet_id \in PetIds, body \in PetBodies :
        OnPets("update_pet", Some(pet_id), PutPet(pets, pet_id, body, now))

PatchPetRequest ==
    \E pet_id \in PetIds, body \in PetPatches :
        OnPets("patch_pet", Some(pet_id), PatchPet(pets, pet_id, body, now))

DeletePet ==
    \E pet_id \in PetIds :
        OnPets("delete_pet", Some(pet_id), delete_pet(pets, pet_id, now))

FirstNameFilters == {None} \cup {Some(n) : n \in FirstNames}
LastNameFilters == {None, Some("Lee"), Some("Zed")}
EmailFilters == {None, Some("ann@example.com"), Some("bob@example.com")}
PhoneFilters == Phones

CreateOwner ==
    \E body \in OwnerBodies :
        LET r == PostOwners(owners, body, now, issued + 1)
        IN /\ OnOwners("create_owner",
                       IF r.status = 201 THEN Some(r.body.id) ELSE None, r)
           /\ issued' = IF r.status = 201 THEN issued + 1 ELSE issued

GetOwner ==
    \E owner_id \in OwnerIds :
        /\ OnOwners("get_owner", Some(owner_id), get_owner(owners, owner_id, now))
        /\ UNCHANGED issued

ListOwners ==
    \E first_name \in FirstNameFilters, phone \in PhoneFilters :
        /\ OnOwners("list_owners", None,
                    list_owners(owners, first_name, None, None, phone, now))
        /\ UNCHANGED issued

UpdateOwner ==
    \E owner_id \in OwnerIds, body \in OwnerBodies :
        /\ OnOwners("update_owner", Some(owner_id), PutOwner(owners, owner_id, body, now))
        /\ UNCHANGED issued

DeleteOwner ==
    \E owner_id \in OwnerIds :
        /\ OnOwners("delete_owner", Some(owner_id), delete_owner(owners, owner_id, now))
        /\ UNCHANGED issued

Next ==
    \/ CreatePet
    \/ GetPet
    \/ ListPets
    \/ UpdatePet
    \/ PatchPetRequest
    \/ DeletePet
    \/ CreateOwner
    \/ GetOwner
    \/ ListOwners
    \/ UpdateOwner
    \/ DeleteOwner

Spec == Init /\ [][Next]_vars

(***************************************************************************)
(* Properties of the service when requests are served one at a time.       *)
(***************************************************************************)
Range(q) == {q[i] : i \in DOMAIN q}

AgeOf(body) == IF "age" \in DOMAIN body THEN body.age ELSE None
PhoneOf(body) == IF "phone" \in DOMAIN body THEN body.phone ELSE None
PetsOf(body) == IF "pets" \in DOMAIN body THEN body.pets ELSE <<>>

SameElsewhere(before, after, k) ==
    \A j \in Keys(before) \ {k} :
        j \in Keys(after) /\ Lookup(after, j) = Lookup(before, j)

\* C1: PUT /pets/{id} with a valid PetCreate body succeeds for every stored
\* id and leaves under that id a record with the path id and the body's
\* name, species and age (None when the body omits age); for an absent id
\* it answers 404 and leaves the store unchanged.
C1_PetReplaceFull ==
    \A pet_id \in PetIds, body \in PetBodies :
        {"name", "species"} \subseteq DOMAIN body =>
            LET r == PutPet(pets, pet_id, body, now)
            IN IF pet_id \in Keys(pets)
               THEN /\ r.status = 200
                    /\ pet_id \in Keys(r.store)
                    /\ Lookup(r.store, pet_id).id = pet_id
                    /\ Lookup(r.store, pet_id).name = body.name
                    /\ Lookup(r.store, pet_id).species = body.species
                    /\ Lookup(r.store, pet_id).age = AgeOf(body)
               ELSE r.status = 404 /\ r.store = pets

\* C2: a POST /pets whose id is already a key of the pet store is answered
\* 400 and leaves the pet store exactly as it was; one whose id is not a key
\* adds exactly one record, under that id, and changes no other record.
C2_PetCreateConflict ==
    [][(last'.op = "create_pet" /\ last'.status # 422) =>
          LET k == last'.key[1]
          IN IF k \in Keys(pets)
             THEN last'.status = 400 /\ pets' = pets
             ELSE /\ last'.status = 201
                  /\ Len(pets') = Len(pets) + 1
                  /\ Keys(pets') = Keys(pets) \cup {k}
                  /\ SameElsewhere(pets, pets', k)]_vars

C2_Witness ==
    /\ last.op = "create_pet"
    /\ last.status = 400
    /\ last.key[1] \in Keys(pets)

\* C3: PATCH /pets/{id} with a PetUpdate body, on a stored id, is answered
\* 200 and overwrites exactly the fields present in the body, keeping the
\* absent fields, the id and created_at.
C3_PetMergeUpdate ==
    \A pet_id \in Keys(pets), body \in PetPatches :
        LET r == PatchPet(pets, pet_id, body, now)
        IN /\ r.status = 200
           /\ pet_id \in Keys(r.store)
           /\ \A f \in {"name", "species", "age"} :
                  Lookup(r.store, pet_id)[f] =
                      IF f \in DOMAIN body THEN body[f] ELSE Lookup(pets, pet_id)[f]
           /\ Lookup(r.store, pet_id).id = pet_id
           /\ Lookup(r.store, pet_id).created_at = Lookup(pets, pet_id).created_at

\* C4: PUT /owners/{id} on a stored id keeps the record's id and created_at,
\* takes first_name, last_name, email, phone and the whole pets list from
\* the body, and leaves every other owner record unchanged; on an absent id
\* it answers 404 and leaves the store unchanged.
C4_OwnerReplaceFull ==
    \A owner_id \in OwnerIds, body \in OwnerBodies :
        {"first_name", "last_name", "email"} \subseteq DOMAIN body =>
            LET r == PutOwner(owners, owner_id, body, now)
            IN IF owner_id \in Keys(owners)
               THEN /\ r.status = 200
                    /\ Keys(r.store) = Keys(owners)
                    /\ Len(r.store) = Len(owners)
                    /\ Lookup(r.store, owner_id).id = owner_id
                    /\ Lookup(r.store, owner_id).created_at =
                           Lookup(owners, owner_id).created_at
                    /\ Lookup(r.store, owner_id).first_name = body.first_name
                    /\ Lookup(r.store, owner_id).last_name = body.last_name
                    /\ Lookup(r.store, owner_id).email = body.email
                    /\ Lookup(r.store, owner_id).phone = PhoneOf(body)
                    /\ Lookup(r.store, owner_id).pets = PetsOf(body)
                    /\ SameElsewhere(owners, r.store, owner_id)
               ELSE r.status = 404 /\ r.store = owners

C4_Witness ==
    /\ last.op = "update_owner"
    /\ last.status = 200
    /\ Lookup(owners, last.key[1]).created_at < Lookup(owners, last.key[1]).updated_at

\* C5: in both stores a DELETE of a stored id removes exactly that record,
\* after which GET of the id answers 404; a DELETE of an absent id answers
\* 404 and changes nothing; and an id whose GET answers 404 answers 404
\* until a create puts the id back.
C5_DeleteThenGet ==
    [][/\ last'.op = "delete_pet" =>
            LET k == last'.key[1]
            IN IF k \in Keys(pets)
               THEN /\ last'.status = 200
                    /\ Keys(pets') = Keys(pets) \ {k}
                    /\ Len(pets') = Len(pets) - 1
                    /\ SameElsewhere(pets, pets', k)
                    /\ get_pet(pets', k, now').status = 404
               ELSE last'.status = 404 /\ pets' = pets
       /\ last'.op = "delete_owner" =>
            LET k == last'.key[1]
            IN IF k \in Keys(owners)
               THEN /\ last'.status = 200
                    /\ Keys(owners') = Keys(owners) \ {k}
                    /\ Len(owners') = Len(owners) - 1
                    /\ SameElsewhere(owners, owners', k)
                    /\ get_owner(owners', k, now').status = 404
               ELSE last'.status = 404 /\ owners' = owners
       /\ \A k \in PetIds :
            (get_pet(pets, k, now).status = 404 /\ get_pet(pets', k, now').status # 404) =>
                last' = [op |-> "create_pet", key |-> Some(k), status |-> 201]
       /\ \A k \in OwnerIds :
            (get_owner(owners, k, now).status = 404
                /\ get_owner(owners', k, now').status # 404) =>
                last' = [op |-> "create_owner", key |-> Some(k), status |-> 201]]_vars

C5_Witness ==
    /\ last.op = "delete_pet"
    /\ last.status = 200
    /\ get_pet(pets, last.key[1], now).status = 404
    /\ pets # <<>>

\* C6: after a successful create, GET of the created record's id (the body's
\* id for a pet, the generated id the response carries for an owner) answers
\* 200 with a record whose base fields are the body's, a field the body
\* omits holding its default.
C6_CreateGetRoundTrip ==
    /\ \A body \in PetBodies :
          LET r == PostPets(pets, body, now)
          IN r.status = 201 =>
                LET g == get_pet(r.store, body.id, r.now)
                IN /\ g.status = 200
                   /\ g.body.id = body.id
                   /\ g.body.name = body.name
                   /\ g.body.species = body.species
                   /\ g.body.age = AgeOf(body)
    /\ \A body \in OwnerBodies :
          LET r == PostOwners(owners, body, now, issued + 1)
          IN r.status = 201 =>
                LET g == get_owner(r.store, r.body.id, r.now)
                IN /\ g.status = 200
                   /\ g.body.first_name = body.first_name
                   /\ g.body.last_name = body.last_name
                   /\ g.body.email = body.email
                   /\ g.body.phone = PhoneOf(body)
                   /\ g.body.pets = PetsOf(body)

C6_Witness ==
    /\ last.op = "create_owner"
    /\ last.status = 201
    /\ get_owner(owners, last.key[1], now).status = 200
    /\ get_owner(owners, last.key[1], now).body.phone = Some("555")
    /\ get_owner(owners, last.key[1], now).body.pets = <<Rex>>
    /\ pets # <<>>

\* C7: every record of either store carries the id it is stored under, and
\* no two entries of a store have the same key.
C7_IdsUnique ==
    /\ \A i \in DOMAIN pets : pets[i].val.id = pets[i].key
    /\ \A i, j \in DOMAIN pets : pets[i].key = pets[j].key => i = j
    /\ \A i \in DOMAIN owners : owners[i].val.id = owners[i].key
    /\ \A i, j \in DOMAIN owners : owners[i].key = owners[j].key => i = j

C7_Witness ==
    /\ Len(owners) = 1
    /\ last.op = "update_owner"
    /\ last.status = 200
    /\ owners[1].val.id = owners[1].key

C9_ListFilter ==
    /\ \A name \in NameFilters, species \in SpeciesFilters, age \in AgeFilters :
          LET r == list_pets(pets, name, species, age, now)
              match(p) == /\ name # None => p.name = name[1]
                          /\ species # None => p.species = species[1]
                          /\ age # None => p.age = age
          IN /\ r.status = 200
             /\ r.store = pets
             /\ Range(r.body) = {p \in Range(Values(pets)) : match(p)}
             /\ Len(r.body) = Cardinality(Range(r.body))
    /\ \A first_name \in FirstNameFilters, last_name \in LastNameFilters,
          email \in EmailFilters, phone \in PhoneFilters :
          LET r == list_owners(owners, first_name, last_name, email, phone, now)
              match(o) == /\ first_name # None => o.first_name = first_name[1]
                          /\ last_name # None => o.last_name = last_name[1]
                          /\ email # None => o.email = email[1]
                          /\ phone # None => o.phone = phone
          IN /\ r.status = 200
             /\ r.store = owners
             /\ Range(r.body) = {o \in Range(Values(owners)) : match(o)}
             /\ Len(r.body) = Cardinality(Range(r.body))

C9_Witness ==
    /\ last.op = "list_pets"
    /\ Len(pets) = 2
    /\ Len(list_pets(pets, None, Some("Dog"), Some(3), now).body) = 1
    /\ Len(list_pets(pets, None, Some("Dog"), None, now).body) = 2
    /\ list_pets(pets, Some("Rex"), None, None, now).body = <<>>

(***************************************************************************)
(* Requests served in parallel.  FastAPI runs a `def` handler on a worker  *)
(* thread, and no handler takes a lock, so another thread may run between  *)
(* any two statements of a handler.  A thread in a handler stands after    *)
(* its membership test ("checked"), after it read the stored created_at    *)
(* ("read") or after its assignment ("written").                           *)
(*                                                                         *)
(* Two fields of a thread are bookkeeping of the analysis, not data of the *)
(* program: `raced` is set when another thread adds or removes the key the *)
(* thread works on while the thread is inside its handler, and `anomaly`   *)
(* records what the thread's own statement then did: it assigned over a    *)
(* record its test had not seen ("lost_update"), or it read, deleted or    *)
(* re-created a record that was gone ("use_after_delete").                 *)
(***************************************************************************)
Threads == {1, 2}

ConcPetBodies == {b \in FullPetBodies : b.species = "Dog"}
ConcOwnerBodies == {b \in FullOwnerBodies : b.first_name = "Ann"}

IdleThread ==
    [pc |-> "idle", op |-> "none", store |-> "none", key |-> 0, body |-> None,
     seen |-> 0, status |-> 0, anomaly |-> "none", raced |-> FALSE]

Entered(op, store, key, body) ==
    [pc |-> "checked", op |-> op, store |-> store, key |-> key, body |-> Some(body),
     seen |-> 0, status |-> 0, anomaly |-> "none", raced |-> FALSE]

Answered(th, status, anomaly) ==
    [th EXCEPT !.pc = "idle", !.body = None, !.seen = 0,
               !.status = status, !.anomaly = anomaly]

\* The threads after thread t took a step that left it as `th`; when the
\* step added or removed key k of `store`, the other threads inside a handler
\* on that key have been raced.
Stepped(t, th, store, k, changed) ==
    [u \in Threads |->
        IF u = t THEN th
        ELSE IF changed /\ threads[u].pc # "idle"
                /\ threads[u].store = store /\ threads[u].key = k
             THEN [threads[u] EXCEPT !.raced = TRUE]
             ELSE threads[u]]

InitConc ==
    /\ pets = <<>>
    /\ owners = <<>>
    /\ now = 0
    /\ issued = 0
    /\ last = [op |-> "none", key |-> None, status |-> 0]
    /\ threads = [t \in Threads |-> IdleThread]

\* Faulty variant: the test of main.py:60 never finds the id.
pet_id_taken_never(store, pet_id) == FALSE

\* main.py:60  if pet.id in pets: raise HTTPException(400)

pet_id_taken(store, pet_id) == pet_id \in Keys(store)

\* main.py:101, 144, 157  if <id> not in <store>: raise HTTPException(404)
id_missing(store, id) == id \notin Keys(store)

EnterCreatePet(t) ==
    /\ threads[t].pc = "idle"
    /\ \E body \in ConcPetBodies :
          threads' = Stepped(t,
              IF pet_id_taken(pets, body.id)
              THEN Answered(Entered("create_pet", "pets", body.id, body), 400, "none")
              ELSE Entered("create_pet", "pets", body.id, body),
              "pets", body.id, FALSE)
    /\ UNCHANGED <<pets, owners, now, issued, last>>

\* main.py:62  pets[pet.id] = PetRead(**pet.model_dump())
AssignCreatePet(t) ==
    LET th == threads[t]
    IN /\ th.pc = "checked" /\ th.op = "create_pet"
       /\ now < MaxClock
       /\ pets' = Put(pets, th.key, PetRead(PetCreate(th.body[1]), now))
       /\ now' = now + 1
       /\ threads' = Stepped(t,
              [th EXCEPT !.pc = "written",
                         !.anomaly = IF th.key \in Keys(pets)
                                     THEN "lost_update" ELSE "none"],
              "pets", th.key, th.key \notin Keys(pets))
       /\ UNCHANGED <<owners, issued, last>>

\* main.py:63  return pets[pet.id]
ReturnCreatePet(t) ==
    LET th == threads[t]
    IN /\ th.pc = "written" /\ th.op = "create_pet"
       /\ threads' = Stepped(t,
              IF th.key \in Keys(pets)
              THEN Answered(th, 201, th.anomaly)
              ELSE Answered(th, 500, "use_after_delete"),
              "pets", th.key, FALSE)
       /\ UNCHANGED <<pets, owners, now, issued, last>>

EnterDeletePet(t) ==
    /\ threads[t].pc = "idle"
    /\ \E pet_id \in PetIds :
          threads' = Stepped(t,
              IF id_missing(pets, pet_id)
              THEN Answered(Entered("delete_pet", "pets", pet_id, None), 404, "none")
              ELSE Entered("delete_pet", "pets", pet_id, None),
              "pets", pet_id, FALSE)
    /\ UNCHANGED <<pets, owners, now, issued, last>>

\* main.py:103  del pets[pet_id]      (KeyError when the key is gone)
DelPet(t) ==
    LET th == threads[t]
    IN /\ th.pc = "checked" /\ th.op = "delete_pet"
       /\ pets' = Del(pets, th.key)
       /\ threads' = Stepped(t,
              IF th.key \in Keys(pets)
              THEN Answered(th, 200, "none")
              ELSE Answered(th, 500, "use_after_delete"),
              "pets", th.key, th.key \in Keys(pets))
       /\ UNCHANGED <<owners, now, issued, last>>

\* main.py:111-113  the handler tests nothing and assigns once.
RunCreateOwner(t) ==
    /\ threads[t].pc = "idle"
    /\ now < MaxClock
    /\ \E body \in ConcOwnerBodies :
          LET r == create_owner(owners, OwnerCreate(body), now, issued + 1)
          IN /\ owners' = r.store
             /\ now' = r.now
             /\ issued' = issued + 1
             /\ threads' = Stepped(t,
                    Answered(Entered("create_owner", "owners", issued + 1, body),
                             r.status, "none"),
                    "owners", issued + 1, TRUE)
    /\ UNCHANGED <<pets, last>>

EnterUpdateOwner(t) ==
    /\ threads[t].pc = "idle"
    /\ \E owner_id \in OwnerIds, body \in ConcOwnerBodies :
          threads' = Stepped(t,
              IF id_missing(owners, owner_id)
              THEN Answered(Entered("update_owner", "owners", owner_id, body), 404, "none")
              ELSE Entered("update_owner", "owners", owner_id, body),
              "owners", owner_id, FALSE)
    /\ UNCHANGED <<pets, owners, now, issued, last>>

\* main.py:148  created_at=owners[owner_id].created_at   (KeyError when gone)
ReadUpdateOwner(t) ==
    LET th == threads[t]
    IN /\ th.pc = "checked" /\ th.op = "update_owner"
       /\ threads' = Stepped(t,
              IF th.key \in Keys(owners)
              THEN [th EXCEPT !.pc = "read",
                              !.seen = Lookup(owners, th.key).created_at]
              ELSE Answered(th, 500, "use_after_delete"),
              "owners", th.key, FALSE)
       /\ UNCHANGED <<pets, owners, now, issued, last>>

\* main.py:146-152  updated_owner = OwnerRead(...); owners[owner_id] = updated_owner
AssignUpdateOwner(t) ==
    LET th == threads[t]
        kw == KwMerge([id |-> th.key, created_at |-> th.seen], OwnerCreate(th.body[1]))
    IN /\ th.pc = "read" /\ th.op = "update_owner"
       /\ now < MaxClock
       /\ owners' = Put(owners, th.key, OwnerRead(kw, now, th.key))
       /\ now' = now + 1
       /\ threads' = Stepped(t,
              Answered(th, 200,
                       IF th.key \in Keys(owners) THEN "none" ELSE "use_after_delete"),
              "owners", th.key, th.key \notin Keys(owners))
       /\ UNCHANGED <<pets, issued, last>>

EnterDeleteOwner(t) ==
    /\ threads[t].pc = "idle"
    /\ \E owner_id \in OwnerIds :
          threads' = Stepped(t,
              IF id_missing(owners, owner_id)
              THEN Answered(Entered("delete_owner", "owners", owner_id, None), 404, "none")
              ELSE Entered("delete_owner", "owners", owner_id, None),
              "owners", owner_id, FALSE)
    /\ UNCHANGED <<pets, owners, now, issued, last>>

\* main.py:159  del owners[owner_id]      (KeyError when the key is gone)
DelOwner(t) ==
    LET th == threads[t]
    IN /\ th.pc = "checked" /\ th.op = "delete_owner"
       /\ owners' = Del(owners, th.key)
       /\ threads' = Stepped(t,
              IF th.key \in Keys(owners)
              THEN Answered(th, 200, "none")
              ELSE Answered(th, 500, "use_after_delete"),
              "owners", th.key, th.key \in Keys(owners))
       /\ UNCHANGED <<pets, now, issued, last>>

NextConc ==
    \E t \in Threads :
        \/ EnterCreatePet(t)
        \/ AssignCreatePet(t)
        \/ ReturnCreatePet(t)
        \/ EnterDeletePet(t)
        \/ DelPet(t)
        \/ RunCreateOwner(t)
        \/ EnterUpdateOwner(t)
        \/ ReadUpdateOwner(t)
        \/ AssignUpdateOwner(t)
        \/ EnterDeleteOwner(t)
        \/ DelOwner(t)

SpecConc == InitConc /\ [][NextConc]_vars

\* C10: a handler's statement overwrites a record its test had not seen, or
\* reads, deletes or re-creates a record that is gone, only in a request
\* during which another request added or removed the same key; a request that
\* ran from its test to its answer with no such step in between shows neither.
C10_AnomalyOnlyWhenRaced ==
    \A t \in Threads : threads[t].anomaly # "none" => threads[t].raced

\* Two creates of one pet id were both answered 201 and the second assigned
\* over the record of the first.
C10_Witness ==
    \E t, u \in Threads :
        /\ t # u
        /\ threads[t].pc = "idle" /\ threads[u].pc = "idle"
        /\ threads[t].op = "create_pet" /\ threads[u].op = "create_pet"
        /\ threads[t].key = threads[u].key
        /\ threads[t].status = 201 /\ threads[u].status = 201
        /\ threads[t].anomaly = "none" /\ threads[u].anomaly = "lost_update"

\* A replace re-created an owner that a delete, answered 200, had removed.
C10_ResurrectReached ==
    \E t, u \in Threads :
        /\ threads[t].op = "update_owner" /\ threads[t].status = 200
        /\ threads[t].anomaly = "use_after_delete"
        /\ threads[u].op = "delete_owner" /\ threads[u].status = 200
        /\ threads[u].key = threads[t].key
        /\ threads[t].key \in Keys(owners)

\* A delete that passed its test found the key gone and raised KeyError.
C10_DeleteKeyErrorReached ==
    \E t \in Threads :
        /\ threads[t].op = "delete_pet" /\ threads[t].status = 500
        /\ threads[t].anomaly = "use_after_delete"

=============================================================================
